---------------------------- MODULE Spec2Model ----------------------------
(***************************************************************************)
(* A model of pattoo_shared's configuration layer:                         *)
(*   configuration.py          search, the _Config / Config accessors,     *)
(*                             get_polling_points                          *)
(*   installation/configure.py read_config, check_config, pattoo_config    *)
(*   constants.py              the API path prefixes                       *)
(*                                                                         *)
(* Python strings are TLA+ strings (Len, SubSeq and \o act on them         *)
(* character by character).  Every other Python value is a tagged record,  *)
(* so that values of different Python types can be compared.               *)
(***************************************************************************)
EXTENDS Integers, Sequences, FiniteSets, TLC

VARIABLES
    configuration,  \* _Config._configuration: the loaded YAML document
    dirs,           \* the directories that exist on disk
    disk,           \* the configuration files on disk: path -> YAML text
    pc,             \* "running", or "exited" once the process has terminated
    last            \* the last call made: [op, args, out]

vars == <<configuration, dirs, disk, pc, last>>

---------------------------------------------------------------------------
(* Python values *)

None      == [t |-> "none"]
VStr(s)    == [t |-> "str", s |-> s]
VInt(n)    == [t |-> "int", n |-> n]
VBool(b)   == [t |-> "bool", b |-> b]
VDict(d)   == [t |-> "dict", d |-> d]
VList(l)   == [t |-> "list", l |-> l]

EmptyDict == VDict([k \in {} |-> None])

\* isinstance(v, dict), isinstance(v, list), v is None
IsDict(v) == v.t = "dict"
IsList(v) == v.t = "list"
IsNone(v) == v.t = "none"

\* `k in d` and d[k] for a dict d and a string key k
HasKey(d, k) == k \in DOMAIN d.d
Item(d, k)   == d.d[k]

(* The ways a call can end *)
Return(v)  == [kind |-> "return", value |-> v]
Die(code)  == [kind |-> "die", code |-> code]
Raise(exc) == [kind |-> "raise", exc |-> exc]

Returned(o) == o.kind = "return"
Died(o)     == o.kind = "die"
Raised(o)   == o.kind = "raise"

---------------------------------------------------------------------------
(* Python strings *)

\* s[i] (1-based) as a one-character string
CharAt(s, i) == SubSeq(s, i, i)

\* `sub in s` for two strings: sub occurs in s as a substring
StrContains(sub, s) ==
    \E i \in 1..(Len(s) - Len(sub) + 1) : SubSeq(s, i, i + Len(sub) - 1) = sub

\* s.startswith(prefix)
StartsWith(s, prefix) ==
    Len(s) >= Len(prefix) /\ SubSeq(s, 1, Len(prefix)) = prefix

UpperChars == <<"A","B","C","D","E","F","G","H","I","J","K","L","M",
                "N","O","P","Q","R","S","T","U","V","W","X","Y","Z">>
LowerChars == <<"a","b","c","d","e","f","g","h","i","j","k","l","m",
                "n","o","p","q","r","s","t","u","v","w","x","y","z">>

LowerChar(c) ==
    IF \E i \in 1..Len(UpperChars) : UpperChars[i] = c
    THEN LowerChars[CHOOSE i \in 1..Len(UpperChars) : UpperChars[i] = c]
    ELSE c

\* str.lower()
RECURSIVE Lower(_)
Lower(s) ==
    IF Len(s) = 0 THEN s
    ELSE LowerChar(CharAt(s, 1)) \o Lower(SubSeq(s, 2, Len(s)))

Digits == <<"0","1","2","3","4","5","6","7","8","9">>

\* str(n) for an integer n
RECURSIVE NatToStr(_)
NatToStr(n) ==
    IF n < 10 THEN Digits[n + 1]
    ELSE NatToStr(n \div 10) \o Digits[(n % 10) + 1]

IntToStr(n) == IF n < 0 THEN "-" \o NatToStr(0 - n) ELSE NatToStr(n)

IsDigit(c) == \E i \in 1..Len(Digits) : Digits[i] = c
DigitValue(c) == (CHOOSE i \in 1..Len(Digits) : Digits[i] = c) - 1

IsDigitStr(s) == Len(s) > 0 /\ \A i \in 1..Len(s) : IsDigit(CharAt(s, i))

RECURSIVE StrToNat(_)
StrToNat(s) ==
    IF Len(s) = 0 THEN 0
    ELSE StrToNat(SubSeq(s, 1, Len(s) - 1)) * 10 + DigitValue(CharAt(s, Len(s)))

\* '{}'.format(v): the string form of a scalar
PyFormat(v) ==
    CASE v.t = "str"  -> v.s
      [] v.t = "int"  -> IntToStr(v.n)
      [] v.t = "bool" -> (IF v.b THEN "True" ELSE "False")
      [] v.t = "none" -> "None"

\* int(v): the outcome of the cast
IntCast(v) ==
    CASE v.t = "int"  -> Return(VInt(v.n))
      [] v.t = "bool" -> Return(VInt(IF v.b THEN 1 ELSE 0))
      [] v.t = "str"  -> (IF IsDigitStr(v.s) THEN Return(VInt(StrToNat(v.s)))
                          ELSE Raise("ValueError"))
      [] OTHER        -> Raise("TypeError")

---------------------------------------------------------------------------
(* configuration.search *)

\* `sub_key in section`, for the section found under a primary key
\* (a dict: key membership; a string: substring; a list: element
\* membership; anything else is not iterable)
SubKeyIn(sub_key, section) ==
    CASE section.t = "dict" -> Return(VBool(HasKey(section, sub_key)))
      [] section.t = "str"  -> Return(VBool(StrContains(sub_key, section.s)))
      [] section.t = "list" ->
            Return(VBool(\E i \in 1..Len(section.l) : section.l[i] = VStr(sub_key)))
      [] OTHER              -> Raise("TypeError")

\* A slip: the value found is handed back as its string form
SubKeyItem_AsString(section, sub_key) ==
    IF section.t = "dict" THEN Return(VStr(PyFormat(Item(section, sub_key))))
    ELSE Raise("TypeError")

\* section[sub_key] once `sub_key in section` held
SubKeyItem(section, sub_key) ==
    IF section.t = "dict" THEN Return(Item(section, sub_key))
    ELSE Raise("TypeError")

\* A slip: the die flag is not consulted
SearchTail_IgnoreDie(result, die) ==
    IF IsNone(result) THEN Die(1016) ELSE Return(result)

\* result as search has it on reaching "Error if not configured"
SearchTail(result, die) ==
    IF IsNone(result) /\ die THEN Die(1016) ELSE Return(result)

\* A slip: a blank section is fatal only when die is set
search_BlankIfDie(key, sub_key, config_dict, die) ==
    IF ~IsDict(config_dict) THEN Die(1021)
    ELSE IF ~HasKey(config_dict, key) THEN SearchTail(None, die)
    ELSE IF IsNone(Item(config_dict, key))
         THEN (IF die THEN Die(1004) ELSE Return(None))
    ELSE LET section == Item(config_dict, key)
             found   == SubKeyIn(sub_key, section)
         IN  IF Raised(found) THEN found
             ELSE IF ~found.value.b THEN SearchTail(None, die)
             ELSE LET got == SubKeyItem(section, sub_key)
                  IN  IF Raised(got) THEN got
                      ELSE SearchTail(got.value, die)

search(key, sub_key, config_dict, die) ==
    IF ~IsDict(config_dict) THEN Die(1021)
    ELSE IF ~HasKey(config_dict, key) THEN SearchTail(None, die)
    ELSE IF IsNone(Item(config_dict, key)) THEN Die(1004)
    ELSE LET section == Item(config_dict, key)
             found   == SubKeyIn(sub_key, section)
         IN  IF Raised(found) THEN found
             ELSE IF ~found.value.b THEN SearchTail(None, die)
             ELSE LET got == SubKeyItem(section, sub_key)
                  IN  IF Raised(got) THEN got
                      ELSE SearchTail(got.value, die)

---------------------------------------------------------------------------
(* The collaborators of the accessors: os.path and pattoo_shared.files *)

sep  == "/"
HOME == "/home/pattoo"

\* str.find(sep, 1): the 0-based index of the first separator at or after
\* index 1, or -1
FindSep(path) ==
    IF \E i \in 2..Len(path) : CharAt(path, i) = sep
    THEN (CHOOSE i \in 2..Len(path) :
              /\ CharAt(path, i) = sep
              /\ \A j \in 2..(i - 1) : CharAt(path, j) # sep) - 1
    ELSE -1

\* str.rstrip('/')
RECURSIVE RStripSep(_)
RStripSep(s) ==
    IF Len(s) > 0 /\ CharAt(s, Len(s)) = sep
    THEN RStripSep(SubSeq(s, 1, Len(s) - 1))
    ELSE s

\* os.path.expanduser on a string: a leading "~" becomes $HOME; "~name"
\* names a user the password database does not know and is left alone
expanduser_str(path) ==
    IF ~StartsWith(path, "~") THEN path
    ELSE LET f == FindSep(path)
             i == IF f < 0 THEN Len(path) ELSE f
         IN  IF i # 1 THEN path
             ELSE LET joined == RStripSep(HOME) \o SubSeq(path, i + 1, Len(path))
                  IN  IF joined = "" THEN sep ELSE joined

\* os.path.expanduser(v): os.fspath rejects what is not a path
expanduser(v) ==
    IF v.t = "str" THEN Return(VStr(expanduser_str(v.s))) ELSE Raise("TypeError")

\* os.path.isdir
isdir(path, d) == path \in d

\* files.mkdir: the directory exists afterwards
mkdir(path, d) == d \cup {path}

\* What a method does: how it ends, and the directories left on disk
Done(out, d) == [out |-> out, dirs |-> d]

---------------------------------------------------------------------------
(* configuration._Config *)

log_directory(cfg, d) ==
    LET found == search("pattoo", "log_directory", cfg, TRUE)
    IN  IF ~Returned(found) THEN Done(found, d)
        ELSE LET result == expanduser(found.value)
             IN  IF ~Returned(result) THEN Done(result, d)
                 ELSE IF ~isdir(result.value.s, d) THEN Done(Die(1003), d)
                 ELSE Done(result, d)

\* log_file, log_file_api, log_file_daemon: '{}{}<name>'.format(dir, os.sep)
LogFileIn(cfg, d, name) ==
    LET dir == log_directory(cfg, d)
    IN  IF ~Returned(dir.out) THEN dir
        ELSE Done(Return(VStr(PyFormat(dir.out.value) \o sep \o name)), dir.dirs)

log_file(cfg, d)        == LogFileIn(cfg, d, "pattoo.log")
log_file_api(cfg, d)    == LogFileIn(cfg, d, "pattoo-api.log")
log_file_daemon(cfg, d) == LogFileIn(cfg, d, "pattoo-daemon.log")

\* A slip: the configured level is not lowercased
log_level_NoLower(cfg, d) ==
    LET intermediate == search("pattoo", "log_level", cfg, FALSE)
    IN  IF ~Returned(intermediate) THEN Done(intermediate, d)
        ELSE IF IsNone(intermediate.value) THEN Done(Return(VStr("debug")), d)
        ELSE Done(Return(VStr(PyFormat(intermediate.value))), d)

log_level(cfg, d) ==
    LET intermediate == search("pattoo", "log_level", cfg, FALSE)
    IN  IF ~Returned(intermediate) THEN Done(intermediate, d)
        ELSE IF IsNone(intermediate.value) THEN Done(Return(VStr("debug")), d)
        ELSE Done(Return(VStr(Lower(PyFormat(intermediate.value)))), d)

\* A slip: the directory is not created
MadeDirectory_NoMkdir(cfg, d, sub_key) ==
    LET found == search("pattoo", sub_key, cfg, TRUE)
    IN  IF ~Returned(found) THEN Done(found, d)
        ELSE LET value == expanduser(found.value)
             IN  IF ~Returned(value) THEN Done(value, d)
                 ELSE Done(value, d)

\* cache_directory and daemon_directory: search, expanduser, files.mkdir
MadeDirectory(cfg, d, sub_key) ==
    LET found == search("pattoo", sub_key, cfg, TRUE)
    IN  IF ~Returned(found) THEN Done(found, d)
        ELSE LET value == expanduser(found.value)
             IN  IF ~Returned(value) THEN Done(value, d)
                 ELSE Done(value, mkdir(value.value.s, d))

cache_directory(cfg, d) == MadeDirectory(cfg, d, "cache_directory")

daemon_directory(cfg, d) == MadeDirectory(cfg, d, "daemon_directory")

agent_cache_directory(cfg, d, agent_program) ==
    LET cache == cache_directory(cfg, d)
    IN  IF ~Returned(cache.out) THEN cache
        ELSE LET result == PyFormat(cache.out.value) \o "/" \o agent_program
             IN  Done(Return(VStr(result)), mkdir(result, cache.dirs))

\* bool(v)
Truthy(v) ==
    CASE v.t = "none" -> FALSE
      [] v.t = "str"  -> v.s # ""
      [] v.t = "int"  -> v.n # 0
      [] v.t = "bool" -> v.b
      [] v.t = "dict" -> DOMAIN v.d # {}
      [] OTHER        -> Len(v.l) > 0

language(cfg, d) ==
    LET intermediate == search("pattoo", "language", cfg, FALSE)
    IN  IF ~Returned(intermediate) THEN Done(intermediate, d)
        ELSE IF ~Truthy(intermediate.value) THEN Done(Return(VStr("en")), d)
        ELSE Done(Return(VStr(Lower(PyFormat(intermediate.value)))), d)

---------------------------------------------------------------------------
(* constants.py, and the web prefix and url helper that configuration.py
   imports *)

PATTOO_API_SITE_PREFIX  == "/pattoo/api/v1"
PATTOO_API_AGENT_PREFIX == PATTOO_API_SITE_PREFIX \o "/agent"
PATTOO_API_WEB_PREFIX   == PATTOO_API_SITE_PREFIX \o "/web"

\* url.url_ip_address: the address as it goes into a URL
url_ip_address(ip) == ip

---------------------------------------------------------------------------
(* configuration.Config *)

agent_api_ip_address(cfg) ==
    LET result == search("pattoo_agent_api", "ip_address", cfg, FALSE)
    IN  IF ~Returned(result) THEN result
        ELSE IF IsNone(result.value) THEN Return(VStr("localhost"))
        ELSE result

\* agent_api_ip_bind_port and web_api_ip_bind_port: the configured port
\* cast to an integer, or the default
BindPort(cfg, key, default) ==
    LET intermediate == search(key, "ip_bind_port", cfg, FALSE)
    IN  IF ~Returned(intermediate) THEN intermediate
        ELSE IF IsNone(intermediate.value) THEN Return(VInt(default))
        ELSE IntCast(intermediate.value)

agent_api_ip_bind_port(cfg) == BindPort(cfg, "pattoo_agent_api", 20201)

agent_api_uri == PATTOO_API_AGENT_PREFIX \o "/receive"

agent_api_server_url(cfg, agent_id) ==
    LET ip == agent_api_ip_address(cfg)
    IN  IF ~Returned(ip) THEN ip
        ELSE LET port == agent_api_ip_bind_port(cfg)
             IN  IF ~Returned(port) THEN port
                 ELSE Return(VStr("http://" \o PyFormat(url_ip_address(ip.value))
                                  \o ":" \o PyFormat(port.value)
                                  \o agent_api_uri \o "/" \o agent_id))

web_api_ip_address(cfg) == search("pattoo_web_api", "ip_address", cfg, TRUE)

web_api_ip_bind_port(cfg) == BindPort(cfg, "pattoo_web_api", 20202)

\* A slip: the test of graphql is inverted
web_api_server_url_Swapped(cfg, graphql) ==
    LET suffix == IF graphql THEN "/rest/data" ELSE "/graphql"
        ip     == web_api_ip_address(cfg)
    IN  IF ~Returned(ip) THEN ip
        ELSE LET port == web_api_ip_bind_port(cfg)
             IN  IF ~Returned(port) THEN port
                 ELSE Return(VStr("http://" \o PyFormat(url_ip_address(ip.value))
                                  \o ":" \o PyFormat(port.value)
                                  \o PATTOO_API_WEB_PREFIX \o suffix))

web_api_server_url(cfg, graphql) ==
    LET suffix == IF graphql THEN "/graphql" ELSE "/rest/data"
        ip     == web_api_ip_address(cfg)
    IN  IF ~Returned(ip) THEN ip
        ELSE LET port == web_api_ip_bind_port(cfg)
             IN  IF ~Returned(port) THEN port
                 ELSE Return(VStr("http://" \o PyFormat(url_ip_address(ip.value))
                                  \o ":" \o PyFormat(port.value)
                                  \o PATTOO_API_WEB_PREFIX \o suffix))

---------------------------------------------------------------------------
(* The documents, directories and arguments of the accessor specification *)

Absent == [t |-> "absent"]

\* The dict holding the entries of f that are not Absent
DictOf(f) == VDict([k \in {x \in DOMAIN f : f[x] # Absent} |-> f[k]])

LogDirValues   == {Absent, VStr("/var/log/pattoo"), VStr("~/log")}
LogLevelValues == {Absent, None, VStr("INFO"), VStr("Warning"), VInt(10)}
CacheValues    == {Absent, VStr("/var/cache/pattoo"), VStr("~")}
DaemonValues   == {Absent, VStr("~/run/")}
LanguageValues == {None, VStr("EN"), VStr("")}
AddressValues  == {Absent, None, VStr("10.0.0.1")}
PortValues     == {Absent, VInt(8080), VStr("0443"), VStr("http")}

\* What a file can hold under a primary key besides a mapping
OtherSections == {Absent, None, VInt(5), VStr("log_level: info")}

PattooSections ==
    {DictOf([log_directory |-> ld, log_level |-> ll, cache_directory |-> cd,
             daemon_directory |-> dd, language |-> Absent]) :
        ld \in LogDirValues, ll \in LogLevelValues,
        cd \in CacheValues, dd \in DaemonValues}
    \cup {DictOf([log_directory |-> Absent, log_level |-> Absent,
                  cache_directory |-> Absent, daemon_directory |-> Absent,
                  language |-> lg]) : lg \in LanguageValues}
    \cup OtherSections

ApiSections ==
    {DictOf([ip_address |-> ip, ip_bind_port |-> port]) :
        ip \in AddressValues, port \in PortValues}
    \cup OtherSections

DefaultPattoo ==
    DictOf([log_directory |-> VStr("/var/log/pattoo"),
            cache_directory |-> VStr("/var/cache/pattoo")])

ApiSectionPairs ==
    {<<a, Absent>> : a \in ApiSections} \cup {<<Absent, w>> : w \in ApiSections}
    \cup {<<a, a>> : a \in ApiSections}

\* A file that holds a mapping.  An accessor reads one section, so the
\* sections vary one at a time: every pattoo section beside no API section,
\* and every API section beside one pattoo section.
MappingDocuments ==
    {DictOf([pattoo |-> p, pattoo_agent_api |-> Absent,
             pattoo_web_api |-> Absent]) : p \in PattooSections}
    \cup {DictOf([pattoo |-> DefaultPattoo, pattoo_agent_api |-> q[1],
                  pattoo_web_api |-> q[2]]) : q \in ApiSectionPairs}

\* A file that holds no mapping: empty, a scalar, a list
OtherDocuments == {None, VStr("pattoo"), VList(<<VStr("pattoo")>>)}

Documents == MappingDocuments \cup OtherDocuments

Directories == {"/var/log/pattoo", "/home/pattoo/log", "/var/cache/pattoo"}

SearchKeys    == {"pattoo", "pattoo_web_api", "pattoo_server"}
SearchSubKeys == {"log_level", "log_directory", "ip_address", "language"}
AgentPrograms == {"pattoo_agent_snmpd"}
AgentIds      == {"a1b2"}

---------------------------------------------------------------------------
(* The accessor specification: one process that has loaded its
   configuration and calls search and the accessors in any order until a
   call terminates it *)

\* No configuration file on disk
NoFiles == [path \in {} |-> <<>>]

NoCall == [op |-> "none", args |-> <<>>, out |-> Return(None)]

Init ==
    /\ configuration \in Documents
    /\ dirs \in SUBSET Directories
    /\ disk = NoFiles
    /\ pc = "running"
    /\ last = NoCall

\* A call that ends as `out` and leaves the directories d on disk.  A fatal
\* error and an exception nobody catches both end the process.
Call(op, args, out, d) ==
    /\ pc = "running"
    /\ last' = [op |-> op, args |-> args, out |-> out]
    /\ dirs' = d
    /\ pc' = IF Returned(out) THEN "running" ELSE "exited"
    /\ UNCHANGED <<configuration, disk>>

\* A method of the class, given as its [out, dirs]
Method(op, args, done) == Call(op, args, done.out, done.dirs)

Search ==
    \E key \in SearchKeys, sub_key \in SearchSubKeys, die \in BOOLEAN :
        Call("search", <<key, sub_key, die>>,
             search(key, sub_key, configuration, die), dirs)

LogDirectory == Method("log_directory", <<>>, log_directory(configuration, dirs))
LogFile == Method("log_file", <<>>, log_file(configuration, dirs))
LogFileApi == Method("log_file_api", <<>>, log_file_api(configuration, dirs))
LogFileDaemon ==
    Method("log_file_daemon", <<>>, log_file_daemon(configuration, dirs))
LogLevel == Method("log_level", <<>>, log_level(configuration, dirs))
CacheDirectory ==
    Method("cache_directory", <<>>, cache_directory(configuration, dirs))
AgentCacheDirectory ==
    \E agent_program \in AgentPrograms :
        Method("agent_cache_directory", <<agent_program>>,
               agent_cache_directory(configuration, dirs, agent_program))
DaemonDirectory ==
    Method("daemon_directory", <<>>, daemon_directory(configuration, dirs))
Language == Method("language", <<>>, language(configuration, dirs))
AgentApiIpAddress ==
    Call("agent_api_ip_address", <<>>, agent_api_ip_address(configuration), dirs)
AgentApiIpBindPort ==
    Call("agent_api_ip_bind_port", <<>>,
         agent_api_ip_bind_port(configuration), dirs)
AgentApiServerUrl ==
    \E agent_id \in AgentIds :
        Call("agent_api_server_url", <<agent_id>>,
             agent_api_server_url(configuration, agent_id), dirs)
WebApiIpAddress ==
    Call("web_api_ip_address", <<>>, web_api_ip_address(configuration), dirs)
WebApiIpBindPort ==
    Call("web_api_ip_bind_port", <<>>, web_api_ip_bind_port(configuration), dirs)
WebApiServerUrl ==
    \E graphql \in BOOLEAN :
        Call("web_api_server_url", <<graphql>>,
             web_api_server_url(configuration, graphql), dirs)

Next ==
    \/ Search
    \/ LogDirectory
    \/ LogFile
    \/ LogFileApi
    \/ LogFileDaemon
    \/ LogLevel
    \/ CacheDirectory
    \/ AgentCacheDirectory
    \/ DaemonDirectory
    \/ Language
    \/ AgentApiIpAddress
    \/ AgentApiIpBindPort
    \/ AgentApiServerUrl
    \/ WebApiIpAddress
    \/ WebApiIpBindPort
    \/ WebApiServerUrl

Spec == Init /\ [][Next]_vars

---------------------------------------------------------------------------
(* What the claims speak of, read off the document itself *)

\* document[key] exists and is a mapping
HasSection(doc, key) ==
    IsDict(doc) /\ HasKey(doc, key) /\ IsDict(Item(doc, key))

\* document[key][sub_key] exists
Stored(doc, key, sub_key) ==
    HasSection(doc, key) /\ HasKey(Item(doc, key), sub_key)

StoredValue(doc, key, sub_key) == Item(Item(doc, key), sub_key)

\* The primary key is absent, or maps to a mapping that lacks sub_key
Lacking(doc, key, sub_key) ==
    /\ IsDict(doc)
    /\ \/ ~HasKey(doc, key)
       \/ HasSection(doc, key) /\ ~HasKey(Item(doc, key), sub_key)

\* document[key] exists but is null
BlankSection(doc, key) ==
    IsDict(doc) /\ HasKey(doc, key) /\ IsNone(Item(doc, key))

\* No value to hand back: nothing stored, or null stored
Unset(doc, key, sub_key) ==
    \/ Lacking(doc, key, sub_key)
    \/ Stored(doc, key, sub_key) /\ IsNone(StoredValue(doc, key, sub_key))

\* The document is a mapping with no non-null document[key][sub_key]
NoValueStored(doc, key, sub_key) ==
    /\ IsDict(doc)
    /\ ~(Stored(doc, key, sub_key) /\ ~IsNone(StoredValue(doc, key, sub_key)))

SearchCalled == last.op = "search"
ArgKey       == last.args[1]
ArgSubKey    == last.args[2]
ArgDie       == last.args[3]

---------------------------------------------------------------------------
(* C1 *)

\* C1 as stated: whenever document[key][sub_key] exists, search returns
\* exactly the stored value, for die=True and die=False alike, a stored
\* None included.
C1_AsStated ==
    SearchCalled /\ Stored(configuration, ArgKey, ArgSubKey)
        => last.out = Return(StoredValue(configuration, ArgKey, ArgSubKey))

\* C1 amended: whenever document[key][sub_key] exists, search returns
\* exactly the stored value, untransformed, for die=True and die=False
\* alike, except that a stored None is returned only under die=False; under
\* die=True a stored None terminates the process with code 1016.
C1_StoredValueReturned ==
    SearchCalled /\ Stored(configuration, ArgKey, ArgSubKey)
        => LET v == StoredValue(configuration, ArgKey, ArgSubKey)
           IN  last.out = IF IsNone(v) /\ ArgDie THEN Die(1016) ELSE Return(v)

C1_Witness ==
    /\ SearchCalled /\ ArgDie
    /\ Stored(configuration, ArgKey, ArgSubKey)
    /\ StoredValue(configuration, ArgKey, ArgSubKey) = VInt(10)
    /\ last.out = Return(VInt(10))

---------------------------------------------------------------------------
(* C2 *)

\* C2: when the document is a mapping and the primary key is absent, or
\* maps to a mapping without sub_key, search with die=False returns None
\* and the process keeps running.
C2_MissingGivesNone ==
    SearchCalled /\ ~ArgDie /\ Lacking(configuration, ArgKey, ArgSubKey)
        => last.out = Return(None) /\ pc = "running"

C2_Witness ==
    /\ SearchCalled /\ ~ArgDie
    /\ IsDict(configuration) /\ ~HasKey(configuration, ArgKey)
    /\ last.out = Return(None)

---------------------------------------------------------------------------
(* C3 *)

\* The fatal outcomes of a search for key.sub_key in doc: which code, when
FatalCodes(doc, key, sub_key, die, out) ==
    /\ ~IsDict(doc) => out = Die(1021)
    /\ BlankSection(doc, key) => out = Die(1004)
    /\ die /\ Unset(doc, key, sub_key) => out = Die(1016)
    /\ Died(out) =>
          \/ out.code = 1021 /\ ~IsDict(doc)
          \/ out.code = 1004 /\ BlankSection(doc, key)
          \/ out.code = 1016 /\ die /\ NoValueStored(doc, key, sub_key)

\* C3: search terminates the process with 1021 when the document is no
\* mapping, with 1004 when document[key] exists but is null, both whatever
\* die is, and with 1016 when there is no value and die=True; it is fatal
\* in no other case.  log_level, which has a default, still terminates with
\* 1021 and 1004 and never with 1016.
C3_FatalCodes ==
    /\ SearchCalled =>
          FatalCodes(configuration, ArgKey, ArgSubKey, ArgDie, last.out)
          /\ (Died(last.out) => pc = "exited")
    /\ last.op = "log_level" =>
          FatalCodes(configuration, "pattoo", "log_level", FALSE, last.out)
          /\ (Died(last.out) => pc = "exited")

C3_Witness ==
    /\ last.op = "log_level"
    /\ BlankSection(configuration, "pattoo")
    /\ last.out = Die(1004)
    /\ pc = "exited"

---------------------------------------------------------------------------
(* C7 *)

\* low is s with every upper-case letter replaced by its lower-case one
IsLowerCaseOf(low, s) ==
    /\ Len(low) = Len(s)
    /\ \A i \in 1..Len(s) :
          \/ CharAt(low, i) = CharAt(s, i)
             /\ \A j \in 1..Len(UpperChars) : UpperChars[j] # CharAt(s, i)
          \/ \E j \in 1..Len(UpperChars) :
                UpperChars[j] = CharAt(s, i) /\ LowerChars[j] = CharAt(low, i)

\* C7: log_level() returns "debug" when pattoo.log_level is unset (the
\* primary key absent, the sub-key absent, or no value under it) and the
\* process keeps running; a configured value comes back as its string form
\* in lower case.
C7_LogLevel ==
    last.op = "log_level" =>
        /\ Unset(configuration, "pattoo", "log_level")
              => last.out = Return(VStr("debug")) /\ pc = "running"
        /\ Stored(configuration, "pattoo", "log_level")
           /\ ~IsNone(StoredValue(configuration, "pattoo", "log_level"))
              => /\ Returned(last.out)
                 /\ last.out.value.t = "str"
                 /\ IsLowerCaseOf(last.out.value.s,
                        PyFormat(StoredValue(configuration, "pattoo", "log_level")))

C7_Witness ==
    /\ last.op = "log_level"
    /\ Stored(configuration, "pattoo", "log_level")
    /\ StoredValue(configuration, "pattoo", "log_level") = VStr("INFO")
    /\ last.out = Return(VStr("info"))

---------------------------------------------------------------------------
(* C8 *)

\* A port is configured under key as an integer or as a string of digits
PortConfigured(doc, key) ==
    /\ Stored(doc, key, "ip_bind_port")
    /\ LET v == StoredValue(doc, key, "ip_bind_port")
       IN  v.t = "int" \/ (v.t = "str" /\ IsDigitStr(v.s))

\* The configured port as the decimal text of its integer value
PortText(doc, key) ==
    LET v == StoredValue(doc, key, "ip_bind_port")
    IN  IF v.t = "int" THEN IntToStr(v.n) ELSE IntToStr(StrToNat(v.s))

\* An address is configured under key as a string
AddressConfigured(doc, key) ==
    Stored(doc, key, "ip_address") /\ StoredValue(doc, key, "ip_address").t = "str"

AddressText(doc, key) == StoredValue(doc, key, "ip_address").s

\* C8: web_api_server_url(graphql) is
\* http://<ip>:<port>/pattoo/api/v1/web/graphql when graphql is true and
\* http://<ip>:<port>/pattoo/api/v1/web/rest/data otherwise, <ip> being
\* pattoo_web_api.ip_address (fatal when missing) and <port>
\* pattoo_web_api.ip_bind_port, or 20202 when unset;
\* agent_api_server_url(agent_id) is
\* http://<ip>:<port>/pattoo/api/v1/agent/receive/<agent_id>, with
\* localhost and 20201 for what pattoo_agent_api leaves unset.
C8_ServerUrls ==
    /\ last.op = "web_api_server_url" =>
          LET key  == "pattoo_web_api"
              path == IF last.args[1] THEN "/pattoo/api/v1/web/graphql"
                      ELSE "/pattoo/api/v1/web/rest/data"
          IN  /\ Unset(configuration, key, "ip_address") => last.out = Die(1016)
              /\ AddressConfigured(configuration, key)
                 /\ Unset(configuration, key, "ip_bind_port")
                    => last.out = Return(VStr("http://"
                           \o AddressText(configuration, key) \o ":20202" \o path))
              /\ AddressConfigured(configuration, key)
                 /\ PortConfigured(configuration, key)
                    => last.out = Return(VStr("http://"
                           \o AddressText(configuration, key) \o ":"
                           \o PortText(configuration, key) \o path))
    /\ last.op = "agent_api_server_url" =>
          LET key  == "pattoo_agent_api"
              path == "/pattoo/api/v1/agent/receive/" \o last.args[1]
              ip   == IF Unset(configuration, key, "ip_address") THEN "localhost"
                      ELSE AddressText(configuration, key)
              known == \/ Unset(configuration, key, "ip_address")
                       \/ AddressConfigured(configuration, key)
          IN  /\ known /\ Unset(configuration, key, "ip_bind_port")
                    => last.out = Return(VStr("http://" \o ip \o ":20201" \o path))
              /\ known /\ PortConfigured(configuration, key)
                    => last.out = Return(VStr("http://" \o ip \o ":"
                           \o PortText(configuration, key) \o path))

C8_Witness ==
    /\ last.op = "web_api_server_url" /\ last.args[1] = FALSE
    /\ AddressConfigured(configuration, "pattoo_web_api")
    /\ ~Stored(configuration, "pattoo_web_api", "ip_bind_port")
    /\ last.out = Return(VStr("http://10.0.0.1:20202/pattoo/api/v1/web/rest/data"))

---------------------------------------------------------------------------
(* C10 *)

\* The home-expanded pattoo.<sub_key> of the document, when it is a string
ConfiguredDirectory(doc, sub_key) ==
    IF Stored(doc, "pattoo", sub_key)
       /\ StoredValue(doc, "pattoo", sub_key).t = "str"
    THEN {expanduser_str(StoredValue(doc, "pattoo", sub_key).s)}
    ELSE {}

CacheAndDaemon(doc) ==
    ConfiguredDirectory(doc, "cache_directory")
    \cup ConfiguredDirectory(doc, "daemon_directory")

\* The directory of each agent below the configured cache directory
AgentCaches(doc) ==
    {c \o "/" \o a : c \in ConfiguredDirectory(doc, "cache_directory"),
                     a \in AgentPrograms}

\* One accessor call: the document stays as loaded; no directory goes and
\* only those of `creatable` come; cache_directory and daemon_directory
\* return a directory that exists, and when it existed already nothing
\* changes and a repeated call returns what the last one did; log_directory
\* creates nothing and ends in 1003 when its directory does not exist.
AccessorFrame(creatable) ==
    /\ configuration' = configuration
    /\ dirs \subseteq dirs'
    /\ dirs' \subseteq dirs \cup creatable
    /\ last'.op \in {"cache_directory", "daemon_directory"}
       /\ Returned(last'.out) =>
          /\ last'.out.value.s \in dirs'
          /\ last'.out.value.s \in dirs => dirs' = dirs
          /\ last.op = last'.op /\ Returned(last.out) =>
                last'.out = last.out /\ dirs' = dirs
    /\ last'.op = "log_directory" =>
          /\ dirs' = dirs
          /\ \A dir \in ConfiguredDirectory(configuration, "log_directory") :
                IF dir \in dirs THEN last'.out = Return(VStr(dir))
                ELSE last'.out = Die(1003) /\ pc' = "exited"

\* C10 as stated: over any sequence of accessor calls the document is never
\* modified and the only change on disk is the creation of the configured
\* cache and daemon directories.
C10_AsStated == [][AccessorFrame(CacheAndDaemon(configuration))]_vars

\* C10 amended: over any sequence of accessor calls the document is never
\* modified and the only changes on disk are the creation of the configured
\* cache and daemon directories and, by agent_cache_directory, of the
\* agent's directory below the cache directory; the rest as stated.
C10_AccessorFrame ==
    [][AccessorFrame(CacheAndDaemon(configuration)
                     \cup AgentCaches(configuration))]_vars

C10_Witness ==
    /\ last.op = "cache_directory"
    /\ last.out = Return(VStr("/home/pattoo"))
    /\ "/home/pattoo" \in dirs
    /\ pc = "running"

---------------------------------------------------------------------------
(* configuration.get_polling_points *)

MaxItems == 3

\* variables.PollingPoint
PollingPoint(address, multiplier) ==
    [address |-> address, multiplier |-> multiplier]

\* A slip: a result is put in front of those found so far
RECURSIVE PollingLoop_Prepend(_)
PollingLoop_Prepend(items) ==
    IF items = <<>> THEN <<>>
    ELSE LET item == Head(items)
             rest == PollingLoop_Prepend(Tail(items))
         IN  IF ~IsDict(item) THEN rest
             ELSE IF ~HasKey(item, "address") THEN rest
             ELSE LET multiplier == IF HasKey(item, "multiplier")
                                    THEN Item(item, "multiplier") ELSE VInt(1)
                  IN  rest \o <<PollingPoint(Item(item, "address"), multiplier)>>

\* The loop of get_polling_points over the items that remain
RECURSIVE PollingLoop(_)
PollingLoop(items) ==
    IF items = <<>> THEN <<>>
    ELSE LET item == Head(items)
             rest == PollingLoop(Tail(items))
         IN  IF ~IsDict(item) THEN rest
             ELSE IF ~HasKey(item, "address") THEN rest
             ELSE LET multiplier == IF HasKey(item, "multiplier")
                                    THEN Item(item, "multiplier") ELSE VInt(1)
                  IN  <<PollingPoint(Item(item, "address"), multiplier)>> \o rest

get_polling_points(data) ==
    IF IsList(data) THEN PollingLoop(data.l) ELSE <<>>

PollingItems ==
    {DictOf([address |-> VStr("1.2.3.4")]),
     DictOf([foo |-> VStr("bar")]),
     DictOf([address |-> VStr("x"), multiplier |-> VInt(5)]),
     DictOf([multiplier |-> VInt(2)]),
     VStr("address")}

RECURSIVE SeqsUpTo(_, _)
SeqsUpTo(S, n) ==
    IF n = 0 THEN {<<>>}
    ELSE LET shorter == SeqsUpTo(S, n - 1)
         IN  shorter \cup {Append(q, x) : q \in shorter, x \in S}

PollingInputs ==
    {VList(l) : l \in SeqsUpTo(PollingItems, MaxItems)}
    \cup {None, DictOf([address |-> VStr("1.2.3.4")]), VStr("address")}

(* The polling specification: get_polling_points applied to any input *)

InitPoll ==
    /\ configuration = None
    /\ dirs = {}
    /\ disk = NoFiles
    /\ pc = "running"
    /\ last = NoCall

GetPollingPoints ==
    \E data \in PollingInputs :
        /\ pc = "running"
        /\ last' = [op |-> "get_polling_points", args |-> <<data>>,
                    out |-> Return(get_polling_points(data))]
        /\ UNCHANGED <<configuration, dirs, disk, pc>>

NextPoll == GetPollingPoints

SpecPoll == InitPoll /\ [][NextPoll]_vars

---------------------------------------------------------------------------
(* C6 *)

\* The entries of a list that give a PollingPoint
KeptItems(l) ==
    {i \in 1..Len(l) : IsDict(l[i]) /\ HasKey(l[i], "address")}

\* C6: get_polling_points returns one PollingPoint for each entry of the
\* list that is a mapping with an 'address', in the order of the list, its
\* multiplier the entry's 'multiplier' when it has one and 1 otherwise;
\* every other entry is dropped, and an input that is no list gives an
\* empty result.
C6_PollingPoints ==
    last.op = "get_polling_points" =>
        LET data    == last.args[1]
            results == last.out.value
        IN  /\ Returned(last.out)
            /\ ~IsList(data) => results = <<>>
            /\ IsList(data) =>
                  LET kept == KeptItems(data.l)
                  IN  /\ Len(results) = Cardinality(kept)
                      /\ \A i \in kept :
                            LET at == Cardinality({j \in kept : j <= i})
                            IN  /\ results[at].address = Item(data.l[i], "address")
                                /\ results[at].multiplier =
                                      IF HasKey(data.l[i], "multiplier")
                                      THEN Item(data.l[i], "multiplier")
                                      ELSE VInt(1)

C6_Witness ==
    /\ last.op = "get_polling_points"
    /\ last.args[1] = VList(<<DictOf([address |-> VStr("1.2.3.4")]),
                              DictOf([foo |-> VStr("bar")]),
                              DictOf([address |-> VStr("x"),
                                      multiplier |-> VInt(5)])>>)
    /\ last.out = Return(<<PollingPoint(VStr("1.2.3.4"), VInt(1)),
                           PollingPoint(VStr("x"), VInt(5))>>)

---------------------------------------------------------------------------
(* YAML text, as installation/configure.py handles it: a block mapping is
   the sequence of its top-level entries <<key, value>>, in the order of
   the text *)

MaxFileEntries == 2

\* The keys the files use, as sorted() and yaml.dump order them
PrimaryKeyOrder == <<"pattoo", "pattoo_agent_api", "pattoo_web_api">>
SubKeyOrder ==
    <<"cache_directory", "daemon_directory", "ip_address", "ip_bind_port",
      "language", "log_directory", "log_level">>

\* sorted(d): the keys of d.d in order
SortedKeys(d, order) ==
    LET Present(k) == k \in DOMAIN d.d
    IN  SelectSeq(order, Present)

\* yaml.dump(d): one entry for each key, in key order
Dump(d) ==
    LET keys == SortedKeys(d, PrimaryKeyOrder)
    IN  [i \in 1..Len(keys) |-> <<keys[i], Item(d, keys[i])>>]

\* A slip: an entry whose key has a mapping already is merged into that
\* mapping, sub-key by sub-key
RECURSIVE LoadEntries_DeepMerge(_)
LoadEntries_DeepMerge(text) ==
    IF text = <<>> THEN [k \in {} |-> None]
    ELSE LET entry   == text[Len(text)]
             earlier == LoadEntries_DeepMerge(SubSeq(text, 1, Len(text) - 1))
             value   == IF /\ entry[1] \in DOMAIN earlier
                           /\ IsDict(earlier[entry[1]]) /\ IsDict(entry[2])
                        THEN VDict(entry[2].d @@ earlier[entry[1]].d)
                        ELSE entry[2]
         IN  (entry[1] :> value) @@ earlier

\* The mapping a parser builds from the entries: each entry assigns its key
RECURSIVE LoadEntries(_)
LoadEntries(text) ==
    IF text = <<>> THEN [k \in {} |-> None]
    ELSE LET entry == text[Len(text)]
         IN  (entry[1] :> entry[2]) @@ LoadEntries(SubSeq(text, 1, Len(text) - 1))

\* yaml.safe_load(text): None for a text with nothing in it
Load(text) == IF text = <<>> THEN None ELSE VDict(LoadEntries(text))

\* os.path.isfile
isfile(path, files) == path \in DOMAIN files

\* os.path.join(directory, name)
join(directory, name) ==
    IF StartsWith(name, sep) THEN name
    ELSE IF directory = "" \/ CharAt(directory, Len(directory)) = sep
         THEN directory \o name
    ELSE directory \o sep \o name

---------------------------------------------------------------------------
(* installation/configure.py *)

\* A slip: the file is put in front of the defaults
read_config_DefaultsLast(filepath, default_config, files) ==
    LET default_config_string == Dump(default_config)
    IN  IF isfile(filepath, files)
        THEN Return(Load(files[filepath] \o default_config_string))
        ELSE Return(default_config)

read_config(filepath, default_config, files) ==
    LET default_config_string == Dump(default_config)
    IN  IF isfile(filepath, files)
        THEN Return(Load(default_config_string \o files[filepath]))
        ELSE Return(default_config)

\* files.read_yaml_file: the document the file holds
read_yaml_file(filepath, files) == Load(files[filepath])

RECURSIVE secondary_key_check(_, _, _)
secondary_key_check(config, primary, secondaries) ==
    IF secondaries = <<>> THEN Return(None)
    ELSE LET found == SubKeyIn(Head(secondaries), Item(config, primary))
         IN  IF Raised(found) THEN found
             ELSE IF ~found.value.b THEN Die(1062)
             ELSE secondary_key_check(config, primary, Tail(secondaries))

\* The loop of check_config over the primary keys that remain; config_dict
\* is the sequence of <<primary, secondaries>> in the dict's order
RECURSIVE CheckLoop(_, _)
CheckLoop(config, config_dict) ==
    IF config_dict = <<>> THEN Return(None)
    ELSE LET primary == Head(config_dict)[1]
             found   == SubKeyIn(primary, config)
         IN  IF Raised(found) THEN found
             ELSE IF ~found.value.b THEN Die(1055)
             ELSE LET checked == secondary_key_check(config, primary,
                                                     Head(config_dict)[2])
                  IN  IF ~Returned(checked) THEN checked
                      ELSE CheckLoop(config, Tail(config_dict))

\* PATTOO_CONFIGDIR is set in the environment; the two print calls leave
\* no trace in the state
check_config(config_file, config_dict, files) ==
    CheckLoop(read_yaml_file(config_file, files), config_dict)

\* The loop of pattoo_config over the sorted keys of the pattoo section that
\* remain: how it ends, and the directories on disk by then.  shared.chown
\* changes the owner of a directory it has made; owners are not kept here.
RECURSIVE DirectoryLoop(_, _, _)
DirectoryLoop(keys, section, d) ==
    IF keys = <<>> THEN Done(Return(None), d)
    ELSE LET key   == Head(keys)
             value == Item(section, key)
         IN  IF ~StrContains("directory", key)
             THEN DirectoryLoop(Tail(keys), section, d)
             ELSE LET found == SubKeyIn(sep, value)
                  IN  IF Raised(found) THEN Done(found, d)
                      ELSE IF ~found.value.b THEN Done(Die(1019), d)
                      ELSE LET full_directory == expanduser(value)
                           IN  IF ~Returned(full_directory)
                               THEN Done(full_directory, d)
                               ELSE DirectoryLoop(Tail(keys), section,
                                        IF isdir(full_directory.value.s, d) THEN d
                                        ELSE mkdir(full_directory.value.s, d))

\* config['pattoo'].items(), checked directory by directory
CheckDirectories(config, d) ==
    IF ~HasKey(config, "pattoo") THEN Done(Raise("KeyError"), d)
    ELSE IF ~IsDict(Item(config, "pattoo")) THEN Done(Raise("AttributeError"), d)
    ELSE DirectoryLoop(SortedKeys(Item(config, "pattoo"), SubKeyOrder),
                       Item(config, "pattoo"), d)

\* What pattoo_config does: how it ends, the directories and the files left
Installed(out, d, files) == [out |-> out, dirs |-> d, disk |-> files]

\* open(config_file, 'w') and yaml.dump(config, f_handle)
WriteFile(config_file, config, files) ==
    (config_file :> Dump(config)) @@ files

ConfigFile(config_directory, server) ==
    IF ~server THEN join(config_directory, "pattoo.yaml")
    ELSE join(config_directory, "pattoo_server.yaml")

\* A slip: the file is written before the directories are checked
pattoo_config_WriteFirst(config_directory, config_dict, server, files, d) ==
    LET config_file == ConfigFile(config_directory, server)
        config      == read_config(config_file, config_dict, files).value
        written     == WriteFile(config_file, config, files)
        checked     == IF ~server THEN CheckDirectories(config, d)
                       ELSE Done(Return(None), d)
    IN  Installed(checked.out, checked.dirs, written)

pattoo_config(config_directory, config_dict, server, files, d) ==
    LET config_file == ConfigFile(config_directory, server)
        config      == read_config(config_file, config_dict, files).value
        checked     == IF ~server THEN CheckDirectories(config, d)
                       ELSE Done(Return(None), d)
    IN  IF ~Returned(checked.out) THEN Installed(checked.out, checked.dirs, files)
        ELSE Installed(Return(None), checked.dirs,
                       WriteFile(config_file, config, files))

---------------------------------------------------------------------------
(* The files, defaults and schemas of the installation specification *)

ConfigDirectory == "/etc/pattoo"

InstallLogDirs   == {Absent, VStr("/var/log/pattoo")}
InstallCacheDirs == {Absent, VStr("~/cache"), VStr("cache")}

\* What the file on disk can hold under pattoo: a mapping, or nothing
FilePattooSections ==
    {DictOf([log_directory |-> ld, cache_directory |-> cd]) :
        ld \in InstallLogDirs, cd \in InstallCacheDirs}
    \cup {None}

FileEntries ==
    {<<"pattoo", section>> : section \in FilePattooSections}
    \cup {<<"pattoo_web_api", DictOf([ip_address |-> VStr("10.0.0.1")])>>}

FileTexts == SeqsUpTo(FileEntries, MaxFileEntries)

DefaultPattooSection ==
    DictOf([log_directory |-> VStr("/var/log/pattoo"),
            cache_directory |-> VStr("/var/cache/pattoo"),
            log_level |-> VStr("debug")])

DefaultWebSection ==
    DictOf([ip_address |-> VStr("localhost"), ip_bind_port |-> VInt(20202)])

\* The config_dict an installer passes: never empty
DefaultConfigs ==
    {DictOf([pattoo |-> DefaultPattooSection]),
     DictOf([pattoo |-> DictOf([log_directory |-> VStr("/var/log/pattoo"),
                                daemon_directory |-> VStr("daemon")])]),
     DictOf([pattoo |-> DefaultPattooSection,
             pattoo_web_api |-> DefaultWebSection]),
     DictOf([pattoo_web_api |-> DefaultWebSection])}

\* The required keys a component passes to check_config, in dict order
Schemas ==
    {<< <<"pattoo", <<"log_directory", "cache_directory">>>> >>,
     << <<"pattoo", <<>>>>, <<"pattoo_web_api", <<"ip_address">>>> >>,
     << <<"pattoo", <<"log_directory">>>>, <<"pattoo_agent_api", <<>>>> >>,
     << <<"pattoo_web_api", <<"ip_address", "ip_bind_port">>>>,
        <<"pattoo", <<"cache_directory">>>> >>}

AgentFile  == ConfigFile(ConfigDirectory, FALSE)
ServerFile == ConfigFile(ConfigDirectory, TRUE)

InstallDirectories == {"/var/cache/pattoo"}

---------------------------------------------------------------------------
(* The installation specification: the agent's file is on disk or not, and
   read_config, pattoo_config and check_config run in any order until one
   terminates the process *)

InitInstall ==
    /\ configuration = None
    /\ dirs \in SUBSET InstallDirectories
    /\ disk \in {NoFiles} \cup {(AgentFile :> text) : text \in FileTexts}
    /\ pc = "running"
    /\ last = NoCall

ReadConfig ==
    \E filepath \in {AgentFile, ServerFile}, default_config \in DefaultConfigs :
        LET out == read_config(filepath, default_config, disk)
        IN  /\ pc = "running"
            /\ last' = [op |-> "read_config",
                        args |-> <<filepath, default_config>>, out |-> out]
            /\ pc' = IF Returned(out) THEN "running" ELSE "exited"
            /\ UNCHANGED <<configuration, dirs, disk>>

PattooConfig ==
    \E config_dict \in DefaultConfigs, server \in BOOLEAN :
        LET done == pattoo_config(ConfigDirectory, config_dict, server, disk, dirs)
        IN  /\ pc = "running"
            /\ last' = [op |-> "pattoo_config",
                        args |-> <<ConfigDirectory, config_dict, server>>,
                        out |-> done.out]
            /\ dirs' = done.dirs
            /\ disk' = done.disk
            /\ pc' = IF Returned(done.out) THEN "running" ELSE "exited"
            /\ UNCHANGED configuration

\* check_config on a file that files.read_yaml_file loads as a mapping
CheckConfig ==
    \E config_file \in DOMAIN disk, config_dict \in Schemas :
        LET out == check_config(config_file, config_dict, disk)
        IN  /\ pc = "running"
            /\ IsDict(read_yaml_file(config_file, disk))
            /\ last' = [op |-> "check_config",
                        args |-> <<config_file, config_dict>>, out |-> out]
            /\ pc' = IF Returned(out) THEN "running" ELSE "exited"
            /\ UNCHANGED <<configuration, dirs, disk>>

NextInstall ==
    \/ ReadConfig
    \/ PattooConfig
    \/ CheckConfig

SpecInstall == InitInstall /\ [][NextInstall]_vars

---------------------------------------------------------------------------
(* What the claims speak of, read off the text of a file *)

\* The keys a text gives a value to, and the value it gives last
FileKeys(text) == {text[i][1] : i \in 1..Len(text)}

FileValue(text, key) ==
    LET at == CHOOSE i \in 1..Len(text) :
                 /\ text[i][1] = key
                 /\ \A j \in (i + 1)..Len(text) : text[j][1] # key
    IN  text[at][2]

\* The defaults overridden, key by key, by what the file at path holds
Merged(files, path, defaults) ==
    IF path \notin DOMAIN files THEN defaults
    ELSE VDict([k \in DOMAIN defaults.d \cup FileKeys(files[path]) |->
                  IF k \in FileKeys(files[path]) THEN FileValue(files[path], k)
                  ELSE defaults.d[k]])

---------------------------------------------------------------------------
(* C4 *)

\* sub_key is there under the primary key of the file
FileHas(text, primary, sub_key) ==
    /\ primary \in FileKeys(text)
    /\ IsDict(FileValue(text, primary))
    /\ HasKey(FileValue(text, primary), sub_key)

\* The entry of the schema fails on the file: its primary key is absent, or
\* one of its secondary keys is absent under it
EntryFails(text, entry) ==
    \/ entry[1] \notin FileKeys(text)
    \/ \E j \in 1..Len(entry[2]) : ~FileHas(text, entry[1], entry[2][j])

\* What the claim has check_config do on the file for the schema
CheckExpected(text, schema) ==
    IF \A i \in 1..Len(schema) : ~EntryFails(text, schema[i]) THEN Return(None)
    ELSE LET first == CHOOSE i \in 1..Len(schema) :
                         /\ EntryFails(text, schema[i])
                         /\ \A j \in 1..(i - 1) : ~EntryFails(text, schema[j])
         IN  IF schema[first][1] \notin FileKeys(text) THEN Die(1055)
             ELSE Die(1062)

\* C4 as stated: check_config ends in 1055 when a primary key of the schema
\* is absent from the document, in 1062 when the primary key is present but
\* one of its secondary keys is absent under it, and completes silently
\* otherwise; the first failing primary key in schema order decides.
C4_CheckConfig ==
    last.op = "check_config" =>
        last.out = CheckExpected(disk[last.args[1]], last.args[2])

---------------------------------------------------------------------------
(* C5 *)

\* C5: read_config(path, defaults) returns defaults when path is no file;
\* when the file exists the result has every key of defaults and of the
\* file, with the file's value for each key the file has and the default
\* value for each key only defaults has.
C5_ReadConfig ==
    last.op = "read_config" =>
        LET path     == last.args[1]
            defaults == last.args[2]
        IN  /\ Returned(last.out)
            /\ path \notin DOMAIN disk => last.out.value = defaults
            /\ path \in DOMAIN disk =>
                  LET text   == disk[path]
                      result == last.out.value
                  IN  /\ IsDict(result)
                      /\ DOMAIN result.d = DOMAIN defaults.d \cup FileKeys(text)
                      /\ \A k \in FileKeys(text) :
                            Item(result, k) = FileValue(text, k)
                      /\ \A k \in DOMAIN defaults.d \ FileKeys(text) :
                            Item(result, k) = Item(defaults, k)

C5_Witness ==
    /\ last.op = "read_config"
    /\ last.args[1] \in DOMAIN disk
    /\ HasKey(last.args[2], "pattoo") /\ HasKey(last.args[2], "pattoo_web_api")
    /\ FileKeys(disk[last.args[1]]) = {"pattoo"}
    /\ Returned(last.out)
    /\ Item(last.out.value, "pattoo") = FileValue(disk[last.args[1]], "pattoo")
    /\ Item(last.out.value, "pattoo") # Item(last.args[2], "pattoo")
    /\ Item(last.out.value, "pattoo_web_api") = DefaultWebSection

---------------------------------------------------------------------------
(* C9 *)

\* A value under a directory key of the section has no path separator
BadDirectory(section) ==
    \E k \in DOMAIN section.d :
        /\ StrContains("directory", k)
        /\ section.d[k].t = "str"
        /\ ~StrContains("/", section.d[k].s)

\* One run of pattoo_config, from the files before it to the files after
PattooConfigStep ==
    last'.op = "pattoo_config" =>
        LET server == last'.args[3]
            file   == IF server THEN "/etc/pattoo/pattoo_server.yaml"
                      ELSE "/etc/pattoo/pattoo.yaml"
            merged == Merged(disk, file, last'.args[2])
        IN  /\ ~server /\ HasSection(merged, "pattoo")
               /\ BadDirectory(Item(merged, "pattoo"))
                  => last'.out = Die(1019) /\ disk' = disk /\ pc' = "exited"
            /\ ~Returned(last'.out) => disk' = disk
            /\ Returned(last'.out) =>
                  /\ file \in DOMAIN disk'
                  /\ Load(disk'[file]) = merged
                  /\ \A other \in DOMAIN disk' \ {file} :
                        other \in DOMAIN disk /\ disk'[other] = disk[other]

\* C9: in agent mode, when a value under a directory key of the merged
\* pattoo section has no path separator, pattoo_config terminates with code
\* 1019 and leaves the configuration file as it was: the file is written
\* only once every directory value has passed; after a successful run the
\* file holds exactly the merged configuration.
C9_PattooConfig == [][PattooConfigStep]_vars

C9_Witness ==
    /\ last.op = "pattoo_config" /\ last.args[3] = FALSE
    /\ last.out = Die(1019)
    /\ "/etc/pattoo/pattoo.yaml" \in DOMAIN disk
    /\ FileHas(disk["/etc/pattoo/pattoo.yaml"], "pattoo", "cache_directory")
    /\ FileValue(disk["/etc/pattoo/pattoo.yaml"], "pattoo") =
          DictOf([cache_directory |-> VStr("cache")])
    /\ pc = "exited"

---------------------------------------------------------------------------
(* C11 *)

\* The primary keys that the defaults and the file at path both have
SharedKeys(files, path, defaults) ==
    IF path \in DOMAIN files THEN DOMAIN defaults.d \cap FileKeys(files[path])
    ELSE {}

\* The secondary keys that only the defaults' copy of the primary key has
DefaultOnly(text, defaults, primary) ==
    IF ~IsDict(Item(defaults, primary)) THEN {}
    ELSE {k \in DOMAIN Item(defaults, primary).d :
             ~FileHas(text, primary, k)}

\* config gives each shared primary key the file's value, whole
WholeValue(config, files, path, defaults) ==
    \A primary \in SharedKeys(files, path, defaults) :
        /\ Item(config, primary) = FileValue(files[path], primary)
        /\ \A k \in DefaultOnly(files[path], defaults, primary) :
              ~(IsDict(Item(config, primary)) /\ HasKey(Item(config, primary), k))

\* One run of read_config, or of pattoo_config to its end
WholeValueStep ==
    /\ last'.op = "read_config" =>
          /\ Returned(last'.out)
          /\ WholeValue(last'.out.value, disk, last'.args[1], last'.args[2])
    /\ last'.op = "pattoo_config" /\ Returned(last'.out) =>
          LET file == IF last'.args[3] THEN "/etc/pattoo/pattoo_server.yaml"
                      ELSE "/etc/pattoo/pattoo.yaml"
          IN  \A primary \in SharedKeys(disk, file, last'.args[2]) :
                 /\ FileValue(disk'[file], primary) = FileValue(disk[file], primary)
                 /\ \A k \in DefaultOnly(disk[file], last'.args[2], primary) :
                       ~FileHas(disk'[file], primary, k)

\* C11: read_config overrides whole values at the top level only.  When the
\* file exists and a primary key is in the defaults and in the file, the
\* result has exactly the file's value under it, and no secondary key that
\* only the defaults have under it; the file pattoo_config writes back
\* holds the same.
C11_WholeValueOverride == [][WholeValueStep]_vars

C11_Witness ==
    /\ last.op = "read_config"
    /\ last.args[1] \in DOMAIN disk
    /\ HasKey(last.args[2], "pattoo")
    /\ HasKey(Item(last.args[2], "pattoo"), "log_level")
    /\ FileHas(disk[last.args[1]], "pattoo", "cache_directory")
    /\ Returned(last.out)
    /\ HasKey(Item(last.out.value, "pattoo"), "cache_directory")
    /\ ~HasKey(Item(last.out.value, "pattoo"), "log_level")

=============================================================================
